---- MODULE Spec2Model ----
(***************************************************************************)
(* Model of the progressive-rehash hash map of src/hashtable.hpp:          *)
(* HTable (one bucket array with chained nodes) and HMap (a primary table, *)
(* an optional temporary table that is being drained, and the cursor       *)
(* resizing_pos_).  A node is identified by its key; its hash code is      *)
(* Digest(key).  The comparator handed to lookup/remove is key equality.   *)
(*                                                                         *)
(* One HMap call is split into steps so that the points between two        *)
(* iterations of the loop of help_resize are states of the model:          *)
(*   idle --Call*--> help --HelpMove/HelpAdvance-->* help --HelpExit-->    *)
(*   after --DoFind/DoRemove--> ret --Return--> idle                       *)
(* (an insert returns right after help_resize: HelpExit goes to ret).      *)
(***************************************************************************)
EXTENDS Integers, Sequences, FiniteSets, TLC

\* ---- program constants -------------------------------------------------
k_min_cap == 4
max_work == 15
k_max_load_factor == 8
NotFound == -1

\* ---- bounds of the model -----------------------------------------------
\* number of distinct hash codes the callers' keys produce
NumDigests == 16
\* total number of HMap::insert calls in a behaviour
MaxInserts == 35
\* number of HMap::remove calls that return a node in a behaviour
MaxRemoves == 2
\* the count of calls since the start of a resize is not tracked beyond this
CallCap == 4
\* number of HMap::remove calls that return a node in a behaviour that keeps
\* the record of insert and push times
MaxTrackedRemoves == 1
\* keys that find and remove are called with (besides the key about to be
\* inserted next): 0 and 16 share a hash code (and so a slot under every
\* mask); 3 and 31 share a slot under mask 3 only, 3 at the tail and 31 at
\* the head of the last bucket drained
ProbeKeys == {0, 3, 16, 31}

VARIABLES primary_table_, temporary_table_, resizing_pos_,
          pc, op, key, work_done, result,
          live, nextKey, ninserts, nremoves, startLeft, n0, callsSince,
          born, pushed, npush, track

vars == <<primary_table_, temporary_table_, resizing_pos_,
          pc, op, key, work_done, result,
          live, nextKey, ninserts, nremoves, startLeft, n0, callsSince,
          born, pushed, npush, track>>

\* the record of when each stored node was handed to HMap::insert (born)
\* and when it was last pushed onto a table by HTable::insert (pushed); it
\* is kept in the behaviours that start with track = TRUE
history == <<born, pushed, npush, track>>

\* ---- helpers -----------------------------------------------------------
Max(a, b) == IF a >= b THEN a ELSE b
Min(a, b) == IF a <= b THEN a ELSE b

RECURSIVE BitAnd(_, _)
BitAnd(a, b) ==
    IF a = 0 \/ b = 0 THEN 0
    ELSE 2 * BitAnd(a \div 2, b \div 2) + (IF a % 2 = 1 /\ b % 2 = 1 THEN 1 ELSE 0)

RECURSIVE BitCeil(_)
BitCeil(n) == IF n <= 1 THEN 1 ELSE 2 * BitCeil((n + 1) \div 2)

RECURSIVE HasSingleBit(_)
HasSingleBit(n) == IF n <= 0 THEN FALSE
                   ELSE IF n = 1 THEN TRUE
                   ELSE n % 2 = 0 /\ HasSingleBit(n \div 2)

\* hcode_ of the node the caller builds for a key
Digest(k) == k % NumDigests

\* ---- HTable -------------------------------------------------------------
\* a default-constructed HTable: no buckets, mask_ 0, size_ 0
DefaultTable == [buckets |-> <<>>, mask |-> 0, size |-> 0]

Initialize(t, capacity) ==
    LET c == Max(capacity, k_min_cap)
    IN [buckets |-> [i \in 1..c |-> IF i <= Len(t.buckets) THEN t.buckets[i] ELSE <<>>],
        mask |-> c - 1,
        size |-> 0]

HTable(initial_size) ==
    IF initial_size > 0 THEN Initialize(DefaultTable, BitCeil(initial_size))
    ELSE DefaultTable

\* (changed) an insert that links the node behind the last node of the chain
TableInsertAtTail(t, node) ==
    LET t1 == IF t.buckets = <<>>
              THEN [buckets |-> [i \in 1..k_min_cap |-> <<>>], mask |-> k_min_cap - 1, size |-> 0]
              ELSE t
        pos == BitAnd(node % NumDigests, t1.mask)
    IN [t1 EXCEPT !.buckets[pos + 1] = @ \o <<node>>, !.size = @ + 1]

TableInsert(t, node) ==
    LET t1 == IF t.buckets = <<>> THEN Initialize(t, k_min_cap) ELSE t
        pos == BitAnd(Digest(node), t1.mask)
    IN [t1 EXCEPT !.buckets[pos + 1] = <<node>> \o @, !.size = @ + 1]

\* (changed) capacity() that forgets the + 1
TableCapacityIsMask(t) == t.mask

\* index in chain of the first node the comparator accepts, 0 when none
RECURSIVE FirstMatch(_, _, _)
FirstMatch(chain, k, i) ==
    IF i > Len(chain) THEN 0
    ELSE IF chain[i] = k THEN i
    ELSE FirstMatch(chain, k, i + 1)

\* (changed) a lookup that takes the head of the bucket without asking the
\* comparator
TableLookupNoCompare(t, k) ==
    IF t.buckets = <<>> THEN NotFound
    ELSE LET chain == t.buckets[BitAnd(Digest(k), t.mask) + 1]
         IN IF chain = <<>> THEN NotFound ELSE Head(chain)

TableLookup(t, k) ==
    IF t.buckets = <<>> THEN NotFound
    ELSE LET pos == BitAnd(Digest(k), t.mask)
             chain == t.buckets[pos + 1]
             i == FirstMatch(chain, k, 1)
         IN IF i = 0 THEN NotFound ELSE chain[i]

\* (changed) a remove that always relinks at the bucket head, losing the
\* nodes in front of the match
TableRemoveDropsPrefix(t, k) ==
    IF t.buckets = <<>> THEN [table |-> t, node |-> NotFound]
    ELSE LET pos == BitAnd(Digest(k), t.mask)
             chain == t.buckets[pos + 1]
             i == FirstMatch(chain, k, 1)
         IN IF i = 0 THEN [table |-> t, node |-> NotFound]
            ELSE [table |-> [t EXCEPT !.buckets[pos + 1] = SubSeq(chain, i + 1, Len(chain))],
                  node |-> chain[i]]

\* the pair of the table after the call and the returned node
TableRemove(t, k) ==
    IF t.buckets = <<>> THEN [table |-> t, node |-> NotFound]
    ELSE LET pos == BitAnd(Digest(k), t.mask)
             chain == t.buckets[pos + 1]
             i == FirstMatch(chain, k, 1)
         IN IF i = 0 THEN [table |-> t, node |-> NotFound]
            ELSE [table |-> [t EXCEPT !.buckets[pos + 1] =
                                 SubSeq(chain, 1, i - 1) \o SubSeq(chain, i + 1, Len(chain))],
                  node |-> chain[i]]

TableSize(t) == t.size
TableCapacity(t) == t.mask + 1
TableEmpty(t) == t.size = 0

\* ---- HMap ---------------------------------------------------------------
HasTemp == temporary_table_ # <<>>
Temp == temporary_table_[1]

MapSize == TableSize(primary_table_) + (IF HasTemp THEN TableSize(Temp) ELSE 0)

\* nodes reachable from the buckets of a table
RECURSIVE SeqSum(_, _)
SeqSum(s, i) == IF i > Len(s) THEN 0 ELSE Len(s[i]) + SeqSum(s, i + 1)
Entries(t) == SeqSum(t.buckets, 1)
KeysOf(t) == UNION {{t.buckets[i][j] : j \in 1..Len(t.buckets[i])} : i \in 1..Len(t.buckets)}

\* (changed) a load-factor test that asks for more than the maximum
NeedsResizeStrict(t) == (t.size \div (t.mask + 1)) > k_max_load_factor

\* the load-factor test of HMap::insert
NeedsResize(t) == (TableSize(t) \div TableCapacity(t)) >= k_max_load_factor

\* (changed) the decision to resize taken without the test for a running
\* resize, on the size of the whole map against the minimum capacity
ShouldStartResizeOnMapSize(t) ==
    ((t.size + (IF temporary_table_ # <<>> THEN temporary_table_[1].size ELSE 0))
        \div k_min_cap) >= k_max_load_factor

\* HMap::insert's decision to start a resize, for the primary table after
\* the insert
ShouldStartResize(t) == ~HasTemp /\ NeedsResize(t)

\* (changed) a resize to four times the capacity
StartResizeQuadruple(p) ==
    [temp |-> <<p>>, primary |-> HTable((p.mask + 1) * 4), pos |-> 0]

StartResize(p) ==
    [temp |-> <<p>>, primary |-> HTable(TableCapacity(p) * 2), pos |-> 0]

Init ==
    /\ primary_table_ = DefaultTable
    /\ temporary_table_ = <<>>
    /\ resizing_pos_ = 0
    /\ pc = "idle"
    /\ op = "none"
    /\ key = NotFound
    /\ work_done = 0
    /\ result = NotFound
    /\ live = {}
    /\ nextKey = 0
    /\ ninserts = 0
    /\ nremoves = 0
    /\ startLeft = 0
    /\ n0 = 0
    /\ callsSince = 0
    /\ born = <<>>
    /\ pushed = <<>>
    /\ npush = 0
    /\ track = FALSE

\* the caller's bookkeeping at the start of a call
Enter(o, k) ==
    /\ pc' = "help"
    /\ op' = o
    /\ key' = k
    /\ work_done' = 0
    /\ result' = NotFound

\* keys an insert may be called with: the next unused key, or a probe key
\* that was removed
InsertKeys == {nextKey} \cup {k \in ProbeKeys : k < nextKey /\ k \notin live}
\* keys find and remove are called with
CallKeys == {k \in ProbeKeys \cup {nextKey} : k <= nextKey}

\* (changed) an insert that puts the node into the temporary table while a
\* resize is running
CallInsertIntoTemp(k) ==
    /\ pc = "idle"
    /\ ninserts < MaxInserts
    /\ k \in InsertKeys
    /\ LET p0 == IF TableEmpty(primary_table_) THEN HTable(k_min_cap) ELSE primary_table_
           p1 == TableInsert(p0, k)
           grow == ShouldStartResize(p1)
           r == StartResize(p1)
       IN /\ primary_table_' = IF HasTemp THEN primary_table_
                               ELSE IF grow THEN r.primary ELSE p1
          /\ temporary_table_' = IF HasTemp THEN <<TableInsert(Temp, k)>>
                                 ELSE IF grow THEN r.temp ELSE temporary_table_
          /\ resizing_pos_' = IF grow THEN r.pos ELSE resizing_pos_
          /\ n0' = IF grow THEN Entries(p1) ELSE n0
          /\ callsSince' = IF grow THEN 1
                           ELSE IF HasTemp THEN Min(callsSince + 1, CallCap) ELSE 0
          /\ startLeft' = IF grow THEN Entries(p1)
                          ELSE IF HasTemp THEN Entries(Temp) + 1 ELSE 0
    /\ Enter("insert", k)
    /\ live' = live \cup {k}
    /\ nextKey' = IF k = nextKey THEN nextKey + 1 ELSE nextKey
    /\ ninserts' = ninserts + 1
    /\ IF track
       THEN /\ born' = [x \in live \cup {k} |-> IF x = k THEN ninserts + 1 ELSE born[x]]
            /\ pushed' = [x \in live \cup {k} |-> IF x = k THEN npush + 1 ELSE pushed[x]]
            /\ npush' = npush + 1
       ELSE UNCHANGED <<born, pushed, npush>>
    /\ UNCHANGED <<nremoves, track>>

\* HMap::insert up to its call of help_resize
CallInsert(k) ==
    /\ pc = "idle"
    /\ ninserts < MaxInserts
    /\ k \in InsertKeys
    /\ LET p0 == IF TableEmpty(primary_table_) THEN HTable(k_min_cap) ELSE primary_table_
           p1 == TableInsert(p0, k)
           grow == ShouldStartResize(p1)
           r == StartResize(p1)
       IN /\ primary_table_' = IF grow THEN r.primary ELSE p1
          /\ temporary_table_' = IF grow THEN r.temp ELSE temporary_table_
          /\ resizing_pos_' = IF grow THEN r.pos ELSE resizing_pos_
          /\ n0' = IF grow THEN Entries(p1) ELSE n0
          /\ callsSince' = IF grow THEN 1
                           ELSE IF HasTemp THEN Min(callsSince + 1, CallCap) ELSE 0
          /\ startLeft' = IF grow THEN Entries(p1)
                          ELSE IF HasTemp THEN Entries(Temp) ELSE 0
    /\ Enter("insert", k)
    /\ live' = live \cup {k}
    /\ nextKey' = IF k = nextKey THEN nextKey + 1 ELSE nextKey
    /\ ninserts' = ninserts + 1
    /\ IF track
       THEN /\ born' = [x \in live \cup {k} |-> IF x = k THEN ninserts + 1 ELSE born[x]]
            /\ pushed' = [x \in live \cup {k} |-> IF x = k THEN npush + 1 ELSE pushed[x]]
            /\ npush' = npush + 1
       ELSE UNCHANGED <<born, pushed, npush>>
    /\ UNCHANGED <<nremoves, track>>

\* HMap::find and HMap::remove up to their call of help_resize
CallProbe(o, k) ==
    /\ pc = "idle"
    /\ k \in CallKeys
    /\ o = "remove" => nremoves < (IF track THEN MaxTrackedRemoves ELSE MaxRemoves)
    /\ Enter(o, k)
    /\ callsSince' = IF HasTemp THEN Min(callsSince + 1, CallCap) ELSE 0
    /\ startLeft' = IF HasTemp THEN Entries(Temp) ELSE 0
    /\ UNCHANGED <<primary_table_, temporary_table_, resizing_pos_,
                   live, nextKey, ninserts, nremoves, n0>>
    /\ UNCHANGED history

CallFind(k) == CallProbe("find", k)
CallRemove(k) == CallProbe("remove", k)

\* (changed) a loop condition that allows one transfer too many
LoopCondOffByOne ==
    temporary_table_ # <<>> /\ work_done <= max_work /\ temporary_table_[1].size # 0

\* the loop condition of help_resize
LoopCond == HasTemp /\ work_done < max_work /\ ~TableEmpty(Temp)

\* resizing_pos_ after the wrap test at the top of the loop body
WrapPos == IF resizing_pos_ >= TableCapacity(Temp) THEN 0 ELSE resizing_pos_

\* (changed) the cursor moves on after every transfer
PosAfterMoveAdvances == WrapPos + 1

\* the cursor after a transfer: it stays on the bucket it took the node from
PosAfterMove == WrapPos

\* (changed) the detached node is not handed to the primary table
MoveNodeDropped(node) == primary_table_

\* (changed) the detached node is pushed onto the primary table's bucket of
\* the same index as the bucket it came from
MoveNodeOldSlot(node) ==
    [primary_table_ EXCEPT
        !.buckets[(IF resizing_pos_ >= temporary_table_[1].mask + 1
                   THEN 0 ELSE resizing_pos_) + 1] = <<node>> \o @,
        !.size = @ + 1]

\* the node help_resize hands to the primary table
MoveNode(node) == TableInsert(primary_table_, node)

\* one iteration of the loop that finds a node in the bucket
HelpMove ==
    /\ pc = "help"
    /\ LoopCond
    /\ Temp.buckets[WrapPos + 1] # <<>>
    /\ LET bucket == Temp.buckets[WrapPos + 1]
           node == Head(bucket)
       IN /\ temporary_table_' = <<[Temp EXCEPT !.buckets[WrapPos + 1] = Tail(bucket),
                                                !.size = @ - 1]>>
          /\ primary_table_' = MoveNode(node)
          /\ IF track
             THEN pushed' = [pushed EXCEPT ![node] = npush + 1] /\ npush' = npush + 1
             ELSE UNCHANGED <<pushed, npush>>
    /\ resizing_pos_' = PosAfterMove
    /\ work_done' = work_done + 1
    /\ UNCHANGED <<born, track>>
    /\ UNCHANGED <<pc, op, key, result, live, nextKey, ninserts, nremoves,
                   startLeft, n0, callsSince>>

\* one iteration of the loop that finds the bucket empty
HelpAdvance ==
    /\ pc = "help"
    /\ LoopCond
    /\ Temp.buckets[WrapPos + 1] = <<>>
    /\ resizing_pos_' = WrapPos + 1
    /\ UNCHANGED <<primary_table_, temporary_table_, pc, op, key, work_done, result,
                   live, nextKey, ninserts, nremoves, startLeft, n0, callsSince>>
    /\ UNCHANGED history

\* (changed) an empty temporary table is never discarded
ResetNever == FALSE

\* the test after the loop of help_resize
ResetNeeded == HasTemp /\ TableEmpty(Temp)

\* (changed) help_resize without its early return: with no temporary table
\* the cursor is still advanced once
HelpExitNoEarlyReturn ==
    /\ pc = "help"
    /\ ~LoopCond
    /\ IF HasTemp /\ TableEmpty(Temp)
       THEN temporary_table_' = <<>> /\ resizing_pos_' = 0
       ELSE IF HasTemp
       THEN UNCHANGED <<temporary_table_, resizing_pos_>>
       ELSE resizing_pos_' = resizing_pos_ + 1 /\ UNCHANGED temporary_table_
    /\ pc' = IF op = "insert" THEN "ret" ELSE "after"
    /\ UNCHANGED <<primary_table_, op, key, work_done, result,
                   live, nextKey, ninserts, nremoves, startLeft, n0, callsSince>>
    /\ UNCHANGED history

\* (changed) the reset discards the temporary table and leaves the cursor
\* where it stopped
HelpExitKeepsCursor ==
    /\ pc = "help"
    /\ ~LoopCond
    /\ IF ResetNeeded
       THEN temporary_table_' = <<>>
       ELSE UNCHANGED temporary_table_
    /\ pc' = IF op = "insert" THEN "ret" ELSE "after"
    /\ UNCHANGED <<primary_table_, resizing_pos_, op, key, work_done, result,
                   live, nextKey, ninserts, nremoves, startLeft, n0, callsSince>>
    /\ UNCHANGED history

\* the early return, or the end of the loop and the reset of an empty
\* temporary table
HelpExit ==
    /\ pc = "help"
    /\ ~LoopCond
    /\ IF ResetNeeded
       THEN temporary_table_' = <<>> /\ resizing_pos_' = 0
       ELSE UNCHANGED <<temporary_table_, resizing_pos_>>
    /\ pc' = IF op = "insert" THEN "ret" ELSE "after"
    /\ UNCHANGED <<primary_table_, op, key, work_done, result,
                   live, nextKey, ninserts, nremoves, startLeft, n0, callsSince>>
    /\ UNCHANGED history

\* (changed) a find that forgets the temporary table
MapFindPrimaryOnly(k) == TableLookup(primary_table_, k)

\* HMap::find after help_resize
MapFind(k) ==
    LET a == TableLookup(primary_table_, k)
    IN IF a # NotFound THEN a
       ELSE IF HasTemp THEN TableLookup(Temp, k)
       ELSE NotFound

DoFind ==
    /\ pc = "after"
    /\ op = "find"
    /\ result' = MapFind(key)
    /\ pc' = "ret"
    /\ UNCHANGED <<primary_table_, temporary_table_, resizing_pos_, op, key, work_done,
                   live, nextKey, ninserts, nremoves, startLeft, n0, callsSince>>
    /\ UNCHANGED history

\* HMap::remove after help_resize
DoRemove ==
    /\ pc = "after"
    /\ op = "remove"
    /\ LET a == TableRemove(primary_table_, key)
           b == IF HasTemp THEN TableRemove(Temp, key) ELSE [table |-> DefaultTable, node |-> NotFound]
       IN IF a.node # NotFound
          THEN /\ primary_table_' = a.table
               /\ result' = a.node
               /\ UNCHANGED temporary_table_
          ELSE IF HasTemp
          THEN /\ temporary_table_' = <<b.table>>
               /\ result' = b.node
               /\ UNCHANGED primary_table_
          ELSE /\ result' = NotFound
               /\ UNCHANGED <<primary_table_, temporary_table_>>
    /\ live' = IF result' # NotFound THEN live \ {result'} ELSE live
    /\ nremoves' = IF result' # NotFound THEN nremoves + 1 ELSE nremoves
    /\ IF track
       THEN born' = [x \in live' |-> born[x]] /\ pushed' = [x \in live' |-> pushed[x]]
       ELSE UNCHANGED <<born, pushed>>
    /\ UNCHANGED <<npush, track>>
    /\ pc' = "ret"
    /\ UNCHANGED <<resizing_pos_, op, key, work_done, nextKey, ninserts,
                   startLeft, n0, callsSince>>

\* the call returns to the caller
Return ==
    /\ pc = "ret"
    /\ pc' = "idle"
    /\ op' = "none"
    /\ key' = NotFound
    /\ work_done' = 0
    /\ result' = NotFound
    /\ startLeft' = 0
    /\ UNCHANGED <<primary_table_, temporary_table_, resizing_pos_,
                   live, nextKey, ninserts, nremoves, n0, callsSince>>
    /\ UNCHANGED history

Next ==
    \/ \E k \in 0..MaxInserts : CallInsert(k)
    \/ \E k \in 0..MaxInserts : CallFind(k)
    \/ \E k \in 0..MaxInserts : CallRemove(k)
    \/ HelpMove
    \/ HelpAdvance
    \/ HelpExit
    \/ DoFind
    \/ DoRemove
    \/ Return

Spec == Init /\ [][Next]_vars

\* the same program, with the record of insert and push times kept
InitTracked ==
    /\ primary_table_ = DefaultTable
    /\ temporary_table_ = <<>>
    /\ resizing_pos_ = 0
    /\ pc = "idle"
    /\ op = "none"
    /\ key = NotFound
    /\ work_done = 0
    /\ result = NotFound
    /\ live = {}
    /\ nextKey = 0
    /\ ninserts = 0
    /\ nremoves = 0
    /\ startLeft = 0
    /\ n0 = 0
    /\ callsSince = 0
    /\ born = <<>>
    /\ pushed = <<>>
    /\ npush = 0
    /\ track = TRUE

TrackedSpec == InitTracked /\ [][Next]_vars

\* every step of a call is taken: the code runs a call to its end
FairSpec ==
    /\ Spec
    /\ WF_vars(HelpMove) /\ WF_vars(HelpAdvance) /\ WF_vars(HelpExit)
    /\ WF_vars(DoFind) /\ WF_vars(DoRemove) /\ WF_vars(Return)

\* ---- observations -------------------------------------------------------
AllKeys == KeysOf(primary_table_) \cup (IF HasTemp THEN KeysOf(Temp) ELSE {})
AllEntries == Entries(primary_table_) + (IF HasTemp THEN Entries(Temp) ELSE 0)
Without(chain, k) == SelectSeq(chain, LAMBDA x : x # k)
CeilDiv(a, b) == (a + b - 1) \div b
IsPow2AtLeastMin(c) == HasSingleBit(c) /\ c >= k_min_cap
Expected(k) == IF k \in live THEN k ELSE NotFound

\* ---- C1 -----------------------------------------------------------------
\* C1 (as claimed): between calls size() equals the number of keys inserted
\* and not removed, which is the number of nodes reachable in the chains of
\* the two tables.
CountInvariant ==
    pc = "idle" => /\ MapSize = Cardinality(live)
                   /\ MapSize = AllEntries

\* ---- C2 -----------------------------------------------------------------
\* C2: at every point (between calls and between two single-node transfers
\* of help_resize) every key inserted and not removed sits exactly once in
\* exactly one of the two tables, and the two-table lookup finds it.
MigrationSafety ==
    \* never in neither table
    /\ live \subseteq AllKeys
    \* never in both tables
    /\ HasTemp => KeysOf(primary_table_) \cap KeysOf(Temp) = {}
    \* never twice in one table
    /\ AllEntries = Cardinality(AllKeys)
    /\ \A k \in live : MapFind(k) = k

MigrationSafetyWitness ==
    /\ pc = "help"
    /\ HasTemp
    /\ work_done > 0
    /\ Entries(Temp) > 0
    /\ Entries(primary_table_) > 0
    /\ live # {}

\* ---- C3 -----------------------------------------------------------------
\* C3: a find returns the node of its key exactly when the key was inserted
\* and not removed since; a remove returns that node under the same
\* condition, and afterwards the key is not found.
RoundTrip ==
    [][(pc = "after" /\ pc' = "ret") =>
          /\ result' = Expected(key)
          /\ op = "remove" => (MapFind(key))' = NotFound]_vars

\* a find that ran a migration slice and then found its key in the
\* temporary table
RoundTripWitness ==
    /\ pc = "ret"
    /\ op = "find"
    /\ result = key
    /\ result # NotFound
    /\ HasTemp
    /\ work_done > 0
    /\ key \in KeysOf(Temp)

\* ---- C4 -----------------------------------------------------------------
\* C4 (as claimed): every call that has started returns.
EveryCallReturns == (pc # "idle") ~> (pc = "idle")

\* ---- C5 -----------------------------------------------------------------
\* C5: one call moves at most max_work nodes, and when help_resize is done
\* it has moved min(max_work, nodes that were in the temporary table).
BoundedWork ==
    /\ work_done <= max_work
    /\ pc \in {"after", "ret"} => work_done = Min(max_work, startLeft)

BoundedWorkWitness ==
    /\ pc = "ret"
    /\ startLeft > max_work
    /\ work_done = max_work
    /\ HasTemp

\* ---- C6 -----------------------------------------------------------------
\* C6 (as claimed): after every call, also one made before the first
\* insert, the capacity of each table is a power of two and at least 4.
PowerOfTwoAlways ==
    pc = "ret" => /\ IsPow2AtLeastMin(TableCapacity(primary_table_))
                  /\ HasTemp => IsPow2AtLeastMin(TableCapacity(Temp))

\* C6 (amended): the same, after every call from the first insert on.
PowerOfTwoOnceUsed ==
    (pc = "ret" /\ ninserts > 0) =>
        /\ IsPow2AtLeastMin(TableCapacity(primary_table_))
        /\ HasTemp => IsPow2AtLeastMin(TableCapacity(Temp))

PowerOfTwoWitness ==
    /\ pc = "ret"
    /\ ninserts > 0
    /\ HasTemp
    /\ TableCapacity(primary_table_) = 2 * k_min_cap
    /\ TableCapacity(Temp) = k_min_cap

\* ---- C7 -----------------------------------------------------------------
\* the keys 0, 1, 2, ... were inserted one by one and nothing was removed
InOrderNoRemoves == nremoves = 0 /\ live = 0..(nextKey - 1)
FirstResizeStarts ==
    /\ InOrderNoRemoves
    /\ TableCapacity(primary_table_) <= k_min_cap
    /\ ~HasTemp
    /\ HasTemp'

\* C7 (as claimed): the first resize is started by the insert of key 32, at
\* size 33.
ResizeTriggerAt32 ==
    [][FirstResizeStarts =>
          /\ key' = 32
          /\ MapSize' = 33
          /\ TableCapacity(Temp') = 4
          /\ TableCapacity(primary_table_') = 8]_vars

\* C7 (amended): the first resize is started by the insert of key 31, at
\* size 32 and capacity 4, and by no other insert; once key 31 is in, the
\* primary table has capacity 8.
ResizeTriggerAt31 ==
    [][/\ FirstResizeStarts =>
          /\ key' = 31
          /\ MapSize' = 32
          /\ TableCapacity(Temp') = 4
          /\ TableCapacity(primary_table_') = 8
       /\ (InOrderNoRemoves /\ nextKey > 31)' => TableCapacity(primary_table_') = 8]_vars

ResizeTriggerWitness ==
    /\ InOrderNoRemoves
    /\ pc = "help"
    /\ op = "insert"
    /\ key = 31
    /\ work_done = 0
    /\ HasTemp
    /\ MapSize = 32

\* ---- C8 -----------------------------------------------------------------
\* C8 (as claimed): ceil(n / 15) calls after a resize started with n nodes,
\* the temporary table is gone, every stored key is found and size() is
\* their number.
DrainWithinCalls ==
    (pc = "idle" /\ n0 > 0 /\ callsSince >= CeilDiv(n0, max_work)) =>
        /\ ~HasTemp
        /\ MapSize = Cardinality(live)
        /\ \A k \in live : MapFind(k) = k

\* ---- C9 -----------------------------------------------------------------
\* C9: every stored key is found whatever else shares its slot; a remove
\* takes its own node out of its chain and leaves every chain otherwise as
\* it was, order included.
CollisionIndependence ==
    [][(pc = "after" /\ op = "remove" /\ pc' = "ret") =>
          /\ result' \in {key, NotFound}
          /\ \A i \in 1..Len(primary_table_.buckets) :
                primary_table_'.buckets[i] = Without(primary_table_.buckets[i], result')
          /\ HasTemp' = HasTemp
          /\ HasTemp => \A i \in 1..Len(Temp.buckets) :
                Temp'.buckets[i] = Without(Temp.buckets[i], result')
          /\ \A k \in live \ {key} : (MapFind(k))' = k]_vars

\* a node was removed from the middle of a chain
CollisionWitness ==
    /\ pc = "ret"
    /\ op = "remove"
    /\ result = key
    /\ result # NotFound
    /\ \E i \in 1..Len(primary_table_.buckets) :
          \E j \in 1..(Len(primary_table_.buckets[i]) - 1) :
             LET c == primary_table_.buckets[i]
                 m == primary_table_.mask
             IN /\ BitAnd(Digest(key), m) = i - 1
                /\ c[j] > key
                /\ c[j + 1] < key

\* ---- C10 ----------------------------------------------------------------
\* C10: a find or remove of a key that is in neither table returns the
\* empty result; no step of the call changes the set of stored keys or
\* size(), and the lookup itself changes nothing at all.
NotFoundIsAValue ==
    [][(op \in {"find", "remove"} /\ key \notin AllKeys) =>
          /\ AllKeys' = AllKeys
          /\ MapSize' = MapSize
          /\ pc = "after" => /\ result' = NotFound
                             /\ primary_table_' = primary_table_
                             /\ temporary_table_' = temporary_table_
                             /\ resizing_pos_' = resizing_pos_]_vars

NotFoundWitness ==
    /\ pc = "ret"
    /\ op = "remove"
    /\ key \notin AllKeys
    /\ result = NotFound
    /\ work_done > 0
    /\ HasTemp

\* ---- C11 ----------------------------------------------------------------
\* C11: with no temporary table help_resize changes nothing: the primary
\* table, size(), capacity and cursor stay as they are and there is still no
\* temporary table, however often it is called.
IdempotentDrain ==
    [][(pc = "help" /\ ~HasTemp) =>
          /\ primary_table_' = primary_table_
          /\ temporary_table_' = <<>>
          /\ resizing_pos_' = resizing_pos_
          /\ MapSize' = MapSize
          /\ work_done' = 0
          /\ pc' # "help"]_vars

\* help_resize has returned in a call on a Dictionary that went through a
\* whole resize cycle and is Stable again
IdempotentDrainWitness ==
    /\ pc = "after"
    /\ ~HasTemp
    /\ startLeft = 0
    /\ work_done = 0
    /\ TableCapacity(primary_table_) = 2 * k_min_cap

\* ---- C12 ----------------------------------------------------------------
\* a step that replaces the primary table by one of another capacity
ResizeStarts ==
    /\ primary_table_.buckets # <<>>
    /\ TableCapacity(primary_table_') # TableCapacity(primary_table_)

\* C12: there is never more than one temporary table; a resize is started
\* only by an insert and only when no temporary table exists (the assertion
\* of start_resize holds); while one exists no step replaces either table by
\* one of another capacity.
NoOverlappingResizes ==
    [][/\ Len(temporary_table_') <= 1
       /\ ResizeStarts => /\ pc = "idle"
                          /\ op' = "insert"
                          /\ ~HasTemp
                          /\ HasTemp'
       /\ (HasTemp /\ HasTemp') =>
             /\ TableCapacity(primary_table_') = TableCapacity(primary_table_)
             /\ TableCapacity(Temp') = TableCapacity(Temp)]_vars

\* an insert made while a resize was running has returned
NoOverlappingResizesWitness ==
    /\ pc = "ret"
    /\ op = "insert"
    /\ HasTemp
    /\ callsSince >= 2
    /\ key \in KeysOf(primary_table_)

CursorRange ==
    pc \in {"idle", "ret"} =>
        IF HasTemp
        THEN 0 <= resizing_pos_ /\ resizing_pos_ < TableCapacity(Temp)
        ELSE resizing_pos_ = 0

\* between two calls, the cursor stands on the last slot of a temporary
\* table that still holds nodes
CursorRangeWitness ==
    /\ pc = "idle"
    /\ HasTemp
    /\ resizing_pos_ = TableCapacity(Temp) - 1
    /\ Entries(Temp) > 0

\* ---- C15 ----------------------------------------------------------------
SlotsRight(t) ==
    \A i \in 1..Len(t.buckets) :
        \A j \in 1..Len(t.buckets[i]) :
            BitAnd(Digest(t.buckets[i][j]), t.mask) = i - 1

\* C15: every node of bucket i of a table has hcode_ & mask_ = i, in the
\* primary table (migrated nodes included) and in the temporary table.
SlotInvariant ==
    /\ SlotsRight(primary_table_)
    /\ HasTemp => SlotsRight(Temp)

\* a node has been moved from a bucket of the temporary table to a bucket of
\* the primary table with another index
SlotInvariantWitness ==
    /\ pc = "help"
    /\ HasTemp
    /\ work_done > 0
    /\ \E i \in (TableCapacity(Temp) + 1)..Len(primary_table_.buckets) :
          primary_table_.buckets[i] # <<>>

\* ---- C16 ----------------------------------------------------------------
\* C16: an insert made while a temporary table exists leaves that table as
\* it is and puts its node into the primary table; no step adds a node to
\* the temporary table, whose chains only lose nodes from the start of the
\* resize until it is discarded.
InsertsTargetCurrent ==
    [][/\ (pc = "idle" /\ op' = "insert" /\ HasTemp) =>
             /\ temporary_table_' = temporary_table_
             /\ key' \in KeysOf(primary_table_')
             /\ key' \notin KeysOf(Temp')
             /\ Entries(primary_table_') = Entries(primary_table_) + 1
       /\ (HasTemp /\ HasTemp') =>
             /\ KeysOf(Temp') \subseteq KeysOf(Temp)
             /\ Entries(Temp') <= Entries(Temp)
             /\ TableSize(Temp') <= TableSize(Temp)]_vars

\* an insert made while a resize was running, before its migration slice
InsertsTargetCurrentWitness ==
    /\ pc = "help"
    /\ op = "insert"
    /\ HasTemp
    /\ callsSince >= 2
    /\ work_done = 0
    /\ Entries(Temp) > 0
    /\ key \in KeysOf(primary_table_)

\* ---- C17 ----------------------------------------------------------------
\* the chains of t list their nodes by falling values of stamp
Falling(t, stamp) ==
    \A i \in 1..Len(t.buckets) :
        \A j \in 1..(Len(t.buckets[i]) - 1) :
            stamp[t.buckets[i][j]] > stamp[t.buckets[i][j + 1]]

\* C17 (as claimed): every chain of the primary table lists its nodes in
\* the order of their HMap::insert, the latest first, also after nodes were
\* migrated.
ChainOrderByInsert == Falling(primary_table_, born)

\* C17 (amended): every chain of either table lists its nodes in the order
\* in which HTable::insert pushed them onto that table, the latest push
\* first; a table that never received a migrated node (one of the minimum
\* capacity) is thereby in the order of HMap::insert.
ChainOrderByPush ==
    /\ Falling(primary_table_, pushed)
    /\ HasTemp => Falling(Temp, pushed)
    /\ TableCapacity(primary_table_) = k_min_cap => Falling(primary_table_, born)
    /\ (HasTemp /\ TableCapacity(Temp) = k_min_cap) => Falling(Temp, born)

\* two nodes of one chain of the temporary table were moved to one chain of
\* the primary table, where the older one now comes first
ChainOrderWitness ==
    /\ HasTemp
    /\ \E i \in 1..Len(primary_table_.buckets) :
          \E j \in 1..(Len(primary_table_.buckets[i]) - 1) :
              LET a == primary_table_.buckets[i][j]
                  b == primary_table_.buckets[i][j + 1]
              IN born[a] < born[b] /\ pushed[a] > pushed[b]

\* ---- C18 ----------------------------------------------------------------
\* C18: the step that starts a resize makes the former primary table, with
\* the inserted node, all its chains, its mask_ and its size_, the temporary
\* table and leaves an empty primary table; while a temporary table exists
\* the primary table has twice its capacity; the capacity of the primary
\* table never shrinks and at most doubles in a step.
Doubling ==
    [][/\ (~HasTemp /\ HasTemp') =>
             /\ Temp' = TableInsert(primary_table_, key')
             /\ Entries(primary_table_') = 0
             /\ TableSize(primary_table_') = 0
             /\ TableCapacity(primary_table_') = 2 * TableCapacity(primary_table_)
       /\ HasTemp' => TableCapacity(primary_table_') = 2 * TableCapacity(Temp')
       /\ TableCapacity(primary_table_') >= TableCapacity(primary_table_)
       /\ primary_table_.buckets # <<>> =>
             TableCapacity(primary_table_') <= 2 * TableCapacity(primary_table_)]_vars

\* the insert of the resize has swapped the tables and not yet moved a node
DoublingWitness ==
    /\ pc = "help"
    /\ op = "insert"
    /\ HasTemp
    /\ work_done = 0
    /\ callsSince = 1
    /\ Entries(primary_table_) = 0
    /\ Entries(Temp) = n0
    /\ n0 > 0

\* ---- C19 ----------------------------------------------------------------
\* C19: while a temporary table exists each of its buckets below the cursor
\* is empty, so whenever the loop of help_resize wraps the cursor back to 0
\* the temporary table holds no node.
CursorPrefix ==
    HasTemp =>
        /\ \A i \in 1..Len(Temp.buckets) :
              i - 1 < resizing_pos_ => Temp.buckets[i] = <<>>
        /\ (pc = "help" /\ LoopCond /\ resizing_pos_ >= TableCapacity(Temp)) =>
              Entries(Temp) = 0

\* between two calls the cursor has passed emptied buckets and nodes remain
\* in the bucket it stands on
CursorPrefixWitness ==
    /\ pc = "idle"
    /\ HasTemp
    /\ resizing_pos_ > 0
    /\ Temp.buckets[resizing_pos_ + 1] # <<>>

\* ---- C20 ----------------------------------------------------------------
\* C20: between two calls, with no temporary table and after the first
\* insert, the primary table's size_ / capacity is below the maximum load
\* factor, that is size() < 8 * capacity; also right after a migration has
\* finished.
LoadBound ==
    (pc \in {"idle", "ret"} /\ ~HasTemp /\ ninserts > 0) =>
        /\ TableSize(primary_table_) \div TableCapacity(primary_table_) < k_max_load_factor
        /\ MapSize < k_max_load_factor * TableCapacity(primary_table_)

\* the call that finished a migration has returned
LoadBoundWitness ==
    /\ pc = "ret"
    /\ ~HasTemp
    /\ work_done > 0
    /\ TableCapacity(primary_table_) = 2 * k_min_cap
    /\ MapSize >= k_max_load_factor * k_min_cap

====
